---------------------------- MODULE Spec2Model ----------------------------
(***************************************************************************)
(* A model of tyro's DICOM discovery and parsing pipeline:                 *)
(*   - isValidDICOM, the format validator (discoverer.go);                 *)
(*   - fileWalker, dicomCheckerWorker and the barrier goroutine of         *)
(*     DiscoverDICOMFiles, in its aggregate form (discoverer.go, which     *)
(*     drains its own channels and returns a slice and a MultiError) and   *)
(*     in its streaming form (operations/discoverer.go, which returns the  *)
(*     two channels);                                                      *)
(*   - ParseDICOMFiles, its workers and its barrier (parser.go);           *)
(*   - the streaming consumer loop of the command line program.            *)
(***************************************************************************)
EXTENDS Integers, Sequences, FiniteSets, Bags, TLC

VARIABLES
    mode,        \* "unit" | "aggregate" | "streaming": which program runs
    fs,          \* the sequence of callbacks WalkDir makes: the directory tree
    mc,          \* maxConcurrency after defaulting
    handles,     \* path -> the state of the *os.File opened for that path
    result,      \* unit run: the value isValidDICOM returned
    rec,         \* record run: the ParsedDicomFile [Path, handle, isOpen]
    opened,      \* record run: the handles opened on the record's file, in order
    last,        \* record run: the last call on the record and what it returned
    added,       \* collector run: the arguments of the Add calls, in call order
    wpos,        \* fileWalker: the callback stage it is about to execute
    wpc,         \* fileWalker: "run" | "done"
    fileCh,      \* chan string: the buffered paths
    fileClosed,  \* whether close(fileCh) has run
    resultCh,    \* chan DicomFile of discovery: the paths of the buffered files
    resultClosed,
    errCh,       \* chan error of discovery
    errClosed,
    vw,          \* validator workers: the bag of their states [pc, path, err]
    wg,          \* the WaitGroup counter of discovery
    bpc,         \* discovery barrier: "wait" | "closeErr" | "closeRes" | "done"
    pw,          \* parse workers: the bag of their states [pc, path, err]
    pwg,         \* the WaitGroup counter of ParseDICOMFiles
    pbpc,        \* parse barrier: "wait" | "closeErr" | "closeRes" | "done"
    parsedCh,    \* chan *ParsedDicomFile: the buffered records [Path, handle, isOpen]
    parsedClosed,
    perrCh,      \* chan error of ParseDICOMFiles
    perrClosed,
    dpc,         \* aggregate drain loop: "select" | "done"
    dicomFiles,  \* aggregate: the slice being collected
    multiErr,    \* aggregate: MultiError.errs
    ret,         \* aggregate: the returned ([]DicomFile, error)
    mpc,         \* streaming main: "loop" | "done"
    closedSeen,  \* streaming main: filesClosed, discoveryErrorsClosed, parsingErrorsClosed
    parsedCount, \* streaming main
    errorCount,  \* streaming main
    panicked,    \* "" or the runtime panic that ended the process
    errSent,     \* history: the bag of the errors sent on discovery's errCh
    realSent,    \* history of the aggregate run: its real errors in the order sent
    recvBy,      \* history: path -> how many validator workers received it
    parsedBy,    \* history: path -> how many parse workers received it
    verrSent,    \* history: path -> how many errors for it the validators sent on errCh
    fileSent,    \* history: path -> how many DicomFiles of it were sent on resultCh
    perrSent,    \* history: path -> how many errors for it were sent on perrCh
    recSent,     \* history: path -> how many records of it were sent on parsedCh
    surfaced,    \* history: the set of the errors the streaming caller received
    collectedDiscoveryFiles, \* bridge: the buffer of records
    discoveryErrors,         \* bridge: the buffer of errors
    collectionFinished,      \* bridge: the flag collectFiles sets
    ec,          \* bridge error collector: [pc, discoveryFinished, parseFinished]
    fcpc,        \* bridge record collector: "range" | "done"
    ticks,       \* bridge: the number of pending tea.Tick timers
    polls,       \* bridge: the bag of the running collectFiles calls [pc, batch]
    appended,    \* history: path -> how many times it was appended to the buffer
    delivered    \* history: path -> in how many returned batches it was

envVars == <<mode, fs, mc>>
recordVars == <<rec, opened, last>>
unitVars == <<result, recordVars, added>>
walkerVars == <<wpos, wpc>>
fileChVars == <<fileCh, fileClosed>>
resultChVars == <<resultCh, resultClosed>>
errChVars == <<errCh, errClosed>>
validatorVars == <<vw, wg, recvBy>>
parserHist == <<perrSent, recSent>>
parserVars == <<pw, pwg, parsedBy, parserHist>>
parseChVars == <<parsedCh, parsedClosed, perrCh, perrClosed>>
drainVars == <<dpc, dicomFiles, multiErr, ret>>
mainVars == <<mpc, closedSeen, parsedCount, errorCount, surfaced>>
bufferVars == <<collectedDiscoveryFiles, discoveryErrors>>
collectorVars == <<ec, fcpc, appended>>
pollVars == <<collectionFinished, ticks, polls, delivered>>
bridgeVars == <<bufferVars, collectorVars, pollVars>>
consumerVars == <<drainVars, mainVars, bridgeVars>>
errHist == <<errSent, realSent>>
validHist == <<verrSent, fileSent>>
discoveryVars == <<walkerVars, fileChVars, validatorVars, bpc, errHist, validHist>>
parseVars == <<parserVars, pbpc, parseChVars>>

vars == <<envVars, unitVars, handles, discoveryVars, resultChVars, errChVars,
          parseVars, consumerVars, panicked>>

-----------------------------------------------------------------------------
(* Bounds of the model *)

\* Largest file size of the unit runs of isValidDICOM.
MaxSize == 134
\* Most callbacks WalkDir makes after the one for the root directory.
MaxEntries == 3
\* Largest maxConcurrency argument.
MaxConc == 2
\* The same two bounds for the runs of the streaming command under fair scheduling.
FairEntries == 2
FairConc == 2
\* Most calls of Add on one MultiError.
MaxAdds == 4
\* Most calls of GetHandle and Close on one record.
MaxCalls == 8
\* Largest maxConcurrency of the runs of the bridge, and most collectFiles calls
\* of the bridge that run at the same time.
BridgeConc == 1
MaxPolls == 2

(* Constants of the program *)

\* header := make([]byte, 132)
HeaderLen == 132
\* header[128:132]
MagicOffset == 128
\* maxConcurrency = 8
DefaultConcurrency == 8
\* make(chan ..., maxConcurrency*2)
DiscoveryBufFactor == 2
\* make(chan ..., maxConcurrency*4)
ParseBufFactor == 4

Min(a, b) == IF a < b THEN a ELSE b

\* if maxConcurrency <= 0 { maxConcurrency = 8 }
EffectiveConcurrency(maxConcurrency) ==
    IF maxConcurrency <= 0 THEN DefaultConcurrency ELSE maxConcurrency

\* "DICM"
DICM == <<"D", "I", "C", "M">>

-----------------------------------------------------------------------------
(* Errors.  The two sentinels and io.EOF are single values; an error of    *)
(* the operating system carries the operation and the path.                *)

NilError == [kind |-> "nil", path |-> 0]
ErrorFileTooSmallToBeDICOM == [kind |-> "ErrorFileTooSmallToBeDICOM", path |-> 0]
ErrorInvalidMagicNumber == [kind |-> "ErrorInvalidMagicNumber", path |-> 0]
EOF == [kind |-> "EOF", path |-> 0]
PathError(op, path) == [kind |-> op, path |-> path]

\* The test of the aggregate drain loop, and the spec's "ignorable".
Ignorable(err) == err = ErrorFileTooSmallToBeDICOM \/ err = ErrorInvalidMagicNumber
RealError(err) == err # NilError /\ ~Ignorable(err)

-----------------------------------------------------------------------------
(* Files.  A file is its size, its bytes and whether open and read work.   *)
(* The bytes are given by three parts: the preamble byte repeated over     *)
(* [0,128), the four bytes at [128,132) and a filler after them.           *)

NoFile == [size |-> 0, pre |-> "0", sig |-> <<>>, canOpen |-> FALSE, canRead |-> FALSE,
           decode |-> "none"]

ByteAt(f, i) ==
    IF i < MagicOffset THEN f.pre
    ELSE IF i < MagicOffset + Len(f.sig) THEN f.sig[i - MagicOffset + 1]
    ELSE "z"

\* The *os.File of a path: "none" (never opened), "open" or "closed", and its offset.
NoHandle == [state |-> "none", pos |-> 0]

\* os.Open
Open(f, path) ==
    IF f.canOpen THEN [file |-> [state |-> "open", pos |-> 0], err |-> NilError]
    ELSE [file |-> NoHandle, err |-> PathError("open", path)]

\* make([]byte, len)
Zeroed(len) == [k \in 1..len |-> "\\0"]

\* (*os.File).Read into a zeroed buffer of len bytes: it reads up to len bytes
\* from the offset, and at the end of the file 0 bytes and io.EOF.  "data" is the
\* buffer after the call.
Read(f, path, h, len) ==
    LET n == Min(len, f.size - h.pos) IN
    IF ~f.canRead
    THEN [n |-> 0, data |-> Zeroed(len), file |-> h, err |-> PathError("read", path)]
    ELSE IF n <= 0 /\ len > 0
    THEN [n |-> 0, data |-> Zeroed(len), file |-> h, err |-> EOF]
    ELSE [n |-> n,
          data |-> [k \in 1..len |-> IF k <= n THEN ByteAt(f, h.pos + k - 1) ELSE "\\0"],
          file |-> [h EXCEPT !.pos = h.pos + n], err |-> NilError]

\* (*os.File).Close; on the nil *os.File it returns an error and does nothing.
LeftOpen(h) == h
Close(h) == IF h.state = "open" THEN [h EXCEPT !.state = "closed"] ELSE h

\* file.Seek(0, io.SeekStart)
SeekStart(h) == [h EXCEPT !.pos = 0]
NoSeek(h) == h

\* The rewind isValidDICOM makes before it returns the handle.
Rewind(h) == SeekStart(h)

\* string(header[128:132]) != "DICM"
MagicAtStart(header) == SubSeq(header, 1, Len(DICM)) # DICM
MagicShortByOne(header) ==
    SubSeq(header, MagicOffset + 1, HeaderLen - 1) # SubSeq(DICM, 1, Len(DICM) - 1)
MagicMismatch(header) == SubSeq(header, MagicOffset + 1, HeaderLen) # DICM

\* n < 132
ShortRead(n) == n < HeaderLen

\* isValidDICOM(path): (bool, *os.File, error), with the final state of the file
\* it opened in "file" (the returned handle is "file" when valid, nil otherwise).
isValidDICOM(f, path) ==
    LET o == Open(f, path) IN
    IF o.err # NilError
    THEN [valid |-> FALSE, handle |-> "nil", file |-> Close(o.file), err |-> o.err]
    ELSE LET r == Read(f, path, o.file, HeaderLen) IN
         IF r.err # NilError
         THEN [valid |-> FALSE, handle |-> "nil", file |-> Close(r.file), err |-> r.err]
         ELSE IF ShortRead(r.n)
         THEN [valid |-> FALSE, handle |-> "nil", file |-> Close(r.file),
               err |-> ErrorFileTooSmallToBeDICOM]
         ELSE IF MagicMismatch(r.data)
         THEN [valid |-> FALSE, handle |-> "nil", file |-> Close(r.file),
               err |-> ErrorInvalidMagicNumber]
         ELSE [valid |-> TRUE, handle |-> "file", file |-> Rewind(r.file), err |-> NilError]


-----------------------------------------------------------------------------
(* The directory tree, as the sequence of calls WalkDir makes to the walk  *)
(* callback: (path, d, err).  d is "nil" only in the call that reports an  *)
(* error on the root; err is set in that call and in the second call for a *)
(* directory that could not be read.  The path is the index of the call.   *)

Callback(d, err, f) == [d |-> d, err |-> err, file |-> f]

RegularFile(size, sig, canOpen, decode) ==
    [size |-> size, pre |-> "0", sig |-> sig, canOpen |-> canOpen, canRead |-> TRUE,
     decode |-> decode]

DICX == <<"D", "I", "C", "X">>

\* The files of the pipeline runs: a DICOM file, a file with the DICOM header that
\* the decoder rejects, a file of 23 bytes, one with a wrong signature and one
\* that cannot be opened.
ValidFile == RegularFile(HeaderLen, DICM, TRUE, "ok")
CorruptFile == RegularFile(HeaderLen, DICM, TRUE, "err")
SmallFile == RegularFile(23, DICM, TRUE, "ok")
BadMagicFile == RegularFile(HeaderLen + 1, DICX, TRUE, "ok")
NoPermFile == RegularFile(HeaderLen, DICM, FALSE, "ok")
\* Files with the DICOM header on which the decoder panics, with an error value
\* and with another value.
PanicErrorFile == RegularFile(HeaderLen, DICM, TRUE, "panicError")
PanicValueFile == RegularFile(HeaderLen, DICM, TRUE, "panicValue")

\* A directory that could not be read: the second call WalkDir makes for it.
UnreadableDir == Callback("dir", TRUE, NoFile)

\* The entries of the trees of a run.  The aggregate run decodes nothing, and the
\* streaming run treats every validation error alike.
Entries(m) ==
    IF m = "aggregate"
    THEN {Callback("file", FALSE, f) : f \in {ValidFile, SmallFile, BadMagicFile, NoPermFile}}
             \cup {UnreadableDir}
    ELSE {Callback("file", FALSE, f) : f \in {ValidFile, CorruptFile, SmallFile}}

SeqsUpTo(S, n) == UNION {[1..k -> S] : k \in 0..n}

\* A root that cannot be stat'ed gets one call with no entry; otherwise the root
\* is called first and its entries follow.
Trees(m) ==
    {<<Callback("nil", TRUE, NoFile)>>}
        \cup {<<Callback("dir", FALSE, NoFile)>> \o t : t \in SeqsUpTo(Entries(m), MaxEntries)}

\* The trees of the fair runs of the streaming command.
FairFiles == {ValidFile, CorruptFile, PanicErrorFile, PanicValueFile, SmallFile}
FairTrees ==
    {<<Callback("nil", TRUE, NoFile)>>}
        \cup {<<Callback("dir", FALSE, NoFile)>> \o t :
                 t \in SeqsUpTo({Callback("file", FALSE, f) : f \in FairFiles}, FairEntries)}

Paths == 1..Len(fs)
FilePaths == {p \in Paths : fs[p].d = "file"}

\* What the claims call a matching file: it can be read, holds at least 132
\* bytes and has "DICM" at [128,132).
Matching(p) ==
    /\ fs[p].d = "file"
    /\ fs[p].file.canOpen /\ fs[p].file.canRead
    /\ fs[p].file.size >= HeaderLen
    /\ fs[p].file.sig = DICM

-----------------------------------------------------------------------------
(* The unit runs: one call of isValidDICOM on one file.                    *)

PreambleBytes == {"0", "D"}
Signatures == {DICM, DICX, <<"d", "i", "c", "m">>, <<"M", "C", "I", "D">>}

\* Every file of 0..MaxSize bytes, that opens and reads, or fails to open, or
\* fails to read.
UnitFiles ==
    {[size |-> n, pre |-> b, sig |-> g, canOpen |-> o, canRead |-> r, decode |-> "ok"] :
        n \in 0..MaxSize, b \in PreambleBytes, g \in Signatures,
        <<o, r>> \in {<<TRUE, TRUE>>, <<FALSE, TRUE>>, <<TRUE, FALSE>>}}

NotCalled == [called |-> FALSE, valid |-> FALSE, handle |-> "nil", err |-> NilError]

UnitFile == fs[1].file

\* isValid, handle, err := isValidDICOM(path)
UnitValidate ==
    /\ mode = "unit" /\ ~result.called
    /\ LET r == isValidDICOM(UnitFile, 1) IN
       /\ result' = [called |-> TRUE, valid |-> r.valid, handle |-> r.handle, err |-> r.err]
       /\ handles' = [handles EXCEPT ![1] = r.file]
    /\ UNCHANGED <<envVars, recordVars, added, discoveryVars, resultChVars, errChVars,
                   parseVars, consumerVars, panicked>>

-----------------------------------------------------------------------------
(* Channels *)

\* cap(fileCh) = cap(resultCh) = cap(errCh) = maxConcurrency*2
DiscoveryCap == mc * DiscoveryBufFactor
\* cap(resultCh) = cap(errCh) = maxConcurrency*4 in ParseDICOMFiles
ParseCap == mc * ParseBufFactor

\* A send completes when the buffer has room, and panics on a closed channel.
Unbounded(ch, closed, cap) == TRUE
CanSend(ch, closed, cap) == closed \/ Len(ch) < cap
\* A receive completes when a value is buffered or the channel is closed.
CanRecv(ch, closed) == ch # <<>> \/ closed

\* The channel after a receive.
Rest(ch) == Tail(ch)
NoDequeue(ch) == ch
AfterRecv(ch) == Rest(ch)

Running == panicked = ""

\* The programs that pass the discovered files to ParseDICOMFiles: the streaming
\* command and the bridge of the user interface.
Decoding == mode \in {"streaming", "bridge"}

\* The history of the real errors sent on errCh in an aggregate run, after err
\* has been sent.
InSendOrder(sent, err) ==
    IF mode = "aggregate" /\ RealError(err) THEN Append(sent, err) ELSE sent

-----------------------------------------------------------------------------
(* fileWalker.  Stage 2i-1 is "if err != nil { errCh <- err }" of call i,  *)
(* stage 2i is "if !d.IsDir() { fileCh <- path }" of call i.               *)

StageCall(k) == (k + 1) \div 2
StageIsErr(k) == k % 2 = 1
LastStage == 2 * Len(fs)

\* A stage that does something: an error to send, or an entry that is not a
\* directory (a file to send, or the nil entry, whose IsDir call panics).
HasEffect(k) ==
    IF StageIsErr(k) THEN fs[StageCall(k)].err ELSE fs[StageCall(k)].d # "dir"

NextStage(k) ==
    LET later == {j \in (k + 1)..LastStage : HasEffect(j)} IN
    IF later = {} THEN LastStage + 1
    ELSE CHOOSE j \in later : \A i \in later : j <= i

\* errCh <- err (the walk callback)
WalkerSendErr ==
    /\ Running /\ wpc = "run" /\ wpos <= LastStage /\ StageIsErr(wpos)
    /\ CanSend(errCh, errClosed, DiscoveryCap)
    /\ IF errClosed
       THEN /\ panicked' = "send on closed channel"
            /\ UNCHANGED <<errCh, errHist, wpos>>
       ELSE /\ errCh' = Append(errCh, PathError("walk", StageCall(wpos)))
            /\ errSent' = errSent (+) SetToBag({PathError("walk", StageCall(wpos))})
            /\ realSent' = InSendOrder(realSent, PathError("walk", StageCall(wpos)))
            /\ wpos' = NextStage(wpos)
            /\ UNCHANGED panicked
    /\ UNCHANGED <<envVars, unitVars, handles, wpc, fileChVars, validatorVars, bpc,
                   validHist, resultChVars, errClosed, parseVars, consumerVars>>

\* d.IsDir() on the nil entry of a root that could not be stat'ed
WalkerNilEntry ==
    /\ Running /\ wpc = "run" /\ wpos <= LastStage /\ ~StageIsErr(wpos)
    /\ fs[StageCall(wpos)].d = "nil"
    /\ panicked' = "nil pointer dereference"
    /\ UNCHANGED <<envVars, unitVars, handles, discoveryVars, resultChVars,
                   errChVars, parseVars, consumerVars>>

\* fileCh <- path
WalkerSendPath ==
    /\ Running /\ wpc = "run" /\ wpos <= LastStage /\ ~StageIsErr(wpos)
    /\ fs[StageCall(wpos)].d = "file"
    /\ CanSend(fileCh, fileClosed, DiscoveryCap)
    /\ IF fileClosed
       THEN /\ panicked' = "send on closed channel"
            /\ UNCHANGED <<fileCh, wpos>>
       ELSE /\ fileCh' = Append(fileCh, StageCall(wpos))
            /\ wpos' = NextStage(wpos)
            /\ UNCHANGED panicked
    /\ UNCHANGED <<envVars, unitVars, handles, wpc, fileClosed, validatorVars, bpc,
                   errHist, validHist, resultChVars, errChVars, parseVars, consumerVars>>

\* filepath.WalkDir has returned: the callback has run for every entry.
BeforeWalkReturns == TRUE
WalkReturned == wpos > LastStage

\* close(fileCh), after WalkDir has returned nil (the callback never returns an
\* error, so "if err != nil { errCh <- err }" after the walk sends nothing)
WalkerClose ==
    /\ Running /\ wpc = "run" /\ WalkReturned
    /\ IF fileClosed
       THEN panicked' = "close of closed channel" /\ UNCHANGED <<fileClosed, wpc>>
       ELSE fileClosed' = TRUE /\ wpc' = "done" /\ UNCHANGED panicked
    /\ UNCHANGED <<envVars, unitVars, handles, wpos, fileCh, validatorVars, bpc,
                   errHist, validHist, resultChVars, errChVars, parseVars, consumerVars>>

-----------------------------------------------------------------------------
(* dicomCheckerWorker *)

\* The goroutines of a pool run the same function and have no identity: a pool
\* is the bag of its workers' states.
IdleWorker == [pc |-> "recv", path |-> 0, err |-> NilError]
DoneWorker == [pc |-> "done", path |-> 0, err |-> NilError]
Pool(n) == [s \in {IdleWorker} |-> n]
Step(pool, from, to) == (pool (-) SetToBag({from})) (+) SetToBag({to})
WorkersOf(pool) == BagToSet(pool)

\* "for path := range fileCh" with a path buffered: the worker receives it and
\* calls isValidDICOM(path), which works on that path's file alone.
WorkerRecv(w) ==
    /\ Running /\ w.pc = "recv" /\ fileCh # <<>>
    /\ LET path == Head(fileCh)
           r == isValidDICOM(fs[path].file, path)
       IN /\ fileCh' = AfterRecv(fileCh)
          /\ handles' = [handles EXCEPT ![path] = r.file]
          /\ recvBy' = [recvBy EXCEPT ![path] = @ + 1]
          /\ vw' = Step(vw, w,
                       IF r.err # NilError
                       THEN [pc |-> "sendErr", path |-> path, err |-> r.err]
                       ELSE IF r.valid
                       THEN [pc |-> "sendRes", path |-> path, err |-> NilError]
                       ELSE IdleWorker)
    /\ UNCHANGED <<envVars, unitVars, walkerVars, fileClosed, wg, bpc, errHist, validHist,
                   resultChVars, errChVars, parseVars, consumerVars, panicked>>

\* errCh <- err; continue
WorkerSendErr(w) ==
    /\ Running /\ w.pc = "sendErr"
    /\ CanSend(errCh, errClosed, DiscoveryCap)
    /\ IF errClosed
       THEN /\ panicked' = "send on closed channel"
            /\ UNCHANGED <<errCh, errHist, verrSent, vw>>
       ELSE /\ errCh' = Append(errCh, w.err)
            /\ errSent' = errSent (+) SetToBag({w.err})
            /\ realSent' = InSendOrder(realSent, w.err)
            /\ verrSent' = [verrSent EXCEPT ![w.path] = @ + 1]
            /\ vw' = Step(vw, w, IdleWorker)
            /\ UNCHANGED panicked
    /\ UNCHANGED <<envVars, unitVars, handles, walkerVars, fileChVars, wg, recvBy,
                   bpc, fileSent, resultChVars, errClosed, parseVars, consumerVars>>

\* resultCh <- DicomFile{Path: path, Handle: handle}
WorkerSendResult(w) ==
    /\ Running /\ w.pc = "sendRes"
    /\ CanSend(resultCh, resultClosed, DiscoveryCap)
    /\ IF resultClosed
       THEN /\ panicked' = "send on closed channel"
            /\ UNCHANGED <<resultCh, fileSent, vw>>
       ELSE /\ resultCh' = Append(resultCh, w.path)
            /\ fileSent' = [fileSent EXCEPT ![w.path] = @ + 1]
            /\ vw' = Step(vw, w, IdleWorker)
            /\ UNCHANGED panicked
    /\ UNCHANGED <<envVars, unitVars, handles, walkerVars, fileChVars, wg, recvBy,
                   bpc, errHist, verrSent, resultClosed, errChVars, parseVars, consumerVars>>

\* The range loop ends when fileCh is closed and empty; the deferred wg.Done()
\* runs as the goroutine returns.
WorkerReturn(w) ==
    /\ Running /\ w.pc = "recv" /\ fileCh = <<>> /\ fileClosed
    /\ vw' = Step(vw, w, DoneWorker)
    /\ wg' = wg - 1
    /\ UNCHANGED <<envVars, unitVars, handles, walkerVars, fileChVars, recvBy, bpc,
                   errHist, validHist, resultChVars, errChVars, parseVars, consumerVars,
                   panicked>>

-----------------------------------------------------------------------------
(* The barrier goroutines of DiscoverDICOMFiles and ParseDICOMFiles *)

\* wg.Wait()
AllDone(n) == n = 0
NoWait(n) == TRUE
WaitReturns(n) == AllDone(n)

\* The two close statements of DiscoverDICOMFiles, in program order.
ErrThenResult == <<"closeErr", "closeRes", "done">>
ResultThenErr == <<"closeRes", "closeErr", "done">>
CloseOrder == ErrThenResult

\* The two close statements of ParseDICOMFiles, in program order.
ParseCloseOrder == ErrThenResult

\* The statement after pc in a barrier that closes in the given order.
Then(order, pc) ==
    IF pc = "wait" THEN order[1]
    ELSE IF pc = order[1] THEN order[2]
    ELSE order[3]

BarrierWait ==
    /\ Running /\ mode # "unit" /\ bpc = "wait" /\ WaitReturns(wg)
    /\ bpc' = Then(CloseOrder, bpc)
    /\ UNCHANGED <<envVars, unitVars, handles, walkerVars, fileChVars, validatorVars,
                   errHist, validHist, resultChVars, errChVars, parseVars, consumerVars,
                   panicked>>

\* close(errCh)
BarrierCloseErr ==
    /\ Running /\ bpc = "closeErr"
    /\ IF errClosed
       THEN panicked' = "close of closed channel" /\ UNCHANGED <<errClosed, bpc>>
       ELSE errClosed' = TRUE /\ bpc' = Then(CloseOrder, bpc) /\ UNCHANGED panicked
    /\ UNCHANGED <<envVars, unitVars, handles, walkerVars, fileChVars, validatorVars,
                   errHist, validHist, resultChVars, errCh, parseVars, consumerVars>>

\* close(resultCh)
BarrierCloseResult ==
    /\ Running /\ bpc = "closeRes"
    /\ IF resultClosed
       THEN panicked' = "close of closed channel" /\ UNCHANGED <<resultClosed, bpc>>
       ELSE resultClosed' = TRUE /\ bpc' = Then(CloseOrder, bpc) /\ UNCHANGED panicked
    /\ UNCHANGED <<envVars, unitVars, handles, walkerVars, fileChVars, validatorVars,
                   errHist, validHist, resultCh, errChVars, parseVars, consumerVars>>

-----------------------------------------------------------------------------
(* The decoder and its wrapper *)

\* dicom.ParseUntilEOF(file, nil, SkipPixelData), the external decoder: it reads
\* the file from the handle's offset to the end.  A well-formed file decodes from
\* offset 0 only; a malformed one makes it return an error or panic.
ParseUntilEOF(f, h) ==
    LET after == [h EXCEPT !.pos = f.size] IN
    IF h.state # "open" THEN [panic |-> "none", err |-> PathError("read", 0), file |-> h]
    ELSE IF h.pos # 0 THEN [panic |-> "none", err |-> EOF, file |-> after]
    ELSE IF f.decode = "ok" THEN [panic |-> "none", err |-> NilError, file |-> after]
    ELSE IF f.decode = "err" THEN [panic |-> "none", err |-> PathError("decode", 0), file |-> after]
    ELSE [panic |-> f.decode, err |-> NilError, file |-> after]

\* recover() in the deferred function: the value of the panic in flight, which it
\* stops, or nil ("none") when there is none.
Recover(panic) == panic
NoRecover(panic) == "none"
Recovered(panic) == Recover(panic)

\* saveParseUntilEOF: the deferred function turns a recovered panic into an
\* error; a panic it does not recover escapes to the goroutine.
saveParseUntilEOF(f, h) ==
    LET d == ParseUntilEOF(f, h)
        r == Recovered(d.panic)
    IN
    IF r = "panicError"
    THEN [ok |-> FALSE, err |-> PathError("panic", 0), file |-> d.file, escaped |-> "none"]
    ELSE IF r # "none"
    THEN [ok |-> FALSE, err |-> PathError("panic during DICOM parsing", 0),
          file |-> d.file, escaped |-> "none"]
    ELSE IF d.panic # "none"
    THEN [ok |-> FALSE, err |-> NilError, file |-> d.file, escaped |-> d.panic]
    ELSE IF d.err # NilError
    THEN [ok |-> FALSE, err |-> d.err, file |-> d.file, escaped |-> "none"]
    ELSE [ok |-> TRUE, err |-> NilError, file |-> d.file, escaped |-> "none"]

-----------------------------------------------------------------------------
(* dicomParserWorker *)

\* &ParsedDicomFile{Path: file.Path, Dataset: dataset, handle: file.Handle,
\* isOpen: true}.  The field handle names the handle of the file it came with.
MarkedClosed(path) == [Path |-> path, handle |-> path, isOpen |-> FALSE]
ParsedDicomFile(path) == [Path |-> path, handle |-> path, isOpen |-> TRUE]

Unreleased(p, store) == [rec |-> p, store |-> store, err |-> NilError]
KeepsFlag(p, store) ==
    [rec |-> p, store |-> [store EXCEPT ![p.handle] = Close(@)], err |-> NilError]

\* (*ParsedDicomFile).Close on the record p whose handles are in store: the
\* record and the store after the call, and the error returned.
RecordClose(p, store) ==
    IF ~p.isOpen THEN [rec |-> p, store |-> store, err |-> NilError]
    ELSE [rec |-> [p EXCEPT !.isOpen = FALSE],
          store |-> [store EXCEPT ![p.handle] = Close(@)],
          err |-> IF store[p.handle].state = "open" THEN NilError
                  ELSE PathError("close", p.Path)]

\* How many times x is in the sequence q.
Occurrences(q, x) == Cardinality({i \in 1..Len(q) : q[i] = x})

\* (*ParsedDicomFile).GetHandle on the record p whose handles are in store, f
\* being the file now at p.Path: the record and the store after the call, the
\* handle returned (0 for nil) and the error returned.
RecordGetHandle(p, store, f) ==
    LET o == Open(f, p.Path) IN
    IF p.isOpen
    THEN [rec |-> p, store |-> store, handle |-> p.handle, err |-> NilError]
    ELSE IF o.err # NilError
    THEN [rec |-> p, store |-> store, handle |-> 0, err |-> o.err]
    ELSE [rec |-> [p EXCEPT !.handle = Len(store) + 1, !.isOpen = TRUE],
          store |-> Append(store, o.file),
          handle |-> Len(store) + 1,
          err |-> NilError]

\* The paths of a sequence of records.
PathsOf(records) == [i \in 1..Len(records) |-> records[i].Path]

\* "for file := range fileCh" with a file buffered: the worker receives it and
\* calls saveParseUntilEOF(file.Handle).
ParserRecv(w) ==
    /\ Running /\ Decoding /\ w.pc = "recv" /\ resultCh # <<>>
    /\ LET path == Head(resultCh)
           r == saveParseUntilEOF(fs[path].file, handles[path])
       IN /\ resultCh' = AfterRecv(resultCh)
          /\ handles' = [handles EXCEPT ![path] = r.file]
          /\ parsedBy' = [parsedBy EXCEPT ![path] = @ + 1]
          /\ pw' = Step(pw, w,
                       IF r.err # NilError
                       THEN [pc |-> "sendErr", path |-> path, err |-> r.err]
                       ELSE [pc |-> "sendRes", path |-> path, err |-> NilError])
          /\ panicked' = IF r.escaped # "none" THEN "decoder panic" ELSE panicked
    /\ UNCHANGED <<envVars, unitVars, discoveryVars, resultClosed, errChVars, pwg,
                   parserHist, pbpc, parseChVars, consumerVars>>

\* errCh <- err
ParserSendErr(w) ==
    /\ Running /\ w.pc = "sendErr"
    /\ CanSend(perrCh, perrClosed, ParseCap)
    /\ IF perrClosed
       THEN /\ panicked' = "send on closed channel"
            /\ UNCHANGED <<perrCh, pw, perrSent>>
       ELSE /\ perrCh' = Append(perrCh, w.err)
            /\ perrSent' = [perrSent EXCEPT ![w.path] = @ + 1]
            /\ pw' = Step(pw, w, [w EXCEPT !.pc = "close"])
            /\ UNCHANGED panicked
    /\ UNCHANGED <<envVars, unitVars, handles, discoveryVars, resultChVars,
                   errChVars, pwg, parsedBy, recSent, pbpc, parsedCh, parsedClosed,
                   perrClosed, consumerVars>>

\* continue: the worker goes to the next iteration of its range loop.
FallThrough(w) == [pc |-> "sendRes", path |-> w.path, err |-> NilError]
Continue(w) == IdleWorker

\* file.Handle.Close(); continue
ParserCloseHandle(w) ==
    /\ Running /\ w.pc = "close"
    /\ handles' = [handles EXCEPT ![w.path] = Close(@)]
    /\ pw' = Step(pw, w, Continue(w))
    /\ UNCHANGED <<envVars, unitVars, discoveryVars, resultChVars, errChVars, pwg,
                   parsedBy, parserHist, pbpc, parseChVars, consumerVars, panicked>>

\* resultCh <- &ParsedDicomFile{Path, Dataset, handle, isOpen: true}
ParserSendResult(w) ==
    /\ Running /\ w.pc = "sendRes"
    /\ CanSend(parsedCh, parsedClosed, ParseCap)
    /\ IF parsedClosed
       THEN /\ panicked' = "send on closed channel"
            /\ UNCHANGED <<parsedCh, pw, recSent>>
       ELSE /\ parsedCh' = Append(parsedCh, ParsedDicomFile(w.path))
            /\ recSent' = [recSent EXCEPT ![w.path] = @ + 1]
            /\ pw' = Step(pw, w, IdleWorker)
            /\ UNCHANGED panicked
    /\ UNCHANGED <<envVars, unitVars, handles, discoveryVars, resultChVars,
                   errChVars, pwg, parsedBy, perrSent, pbpc, parsedClosed, perrCh,
                   perrClosed, consumerVars>>

\* The range loop ends when the input channel is closed and empty; wg.Done().
ParserReturn(w) ==
    /\ Running /\ Decoding /\ w.pc = "recv"
    /\ resultCh = <<>> /\ resultClosed
    /\ pw' = Step(pw, w, DoneWorker)
    /\ pwg' = pwg - 1
    /\ UNCHANGED <<envVars, unitVars, handles, discoveryVars, resultChVars,
                   errChVars, parsedBy, parserHist, pbpc, parseChVars, consumerVars,
                   panicked>>

ParseBarrierWait ==
    /\ Running /\ Decoding /\ pbpc = "wait" /\ WaitReturns(pwg)
    /\ pbpc' = Then(ParseCloseOrder, pbpc)
    /\ UNCHANGED <<envVars, unitVars, handles, discoveryVars, resultChVars,
                   errChVars, parserVars, parseChVars, consumerVars, panicked>>

\* close(errCh)
ParseBarrierCloseErr ==
    /\ Running /\ pbpc = "closeErr"
    /\ IF perrClosed
       THEN panicked' = "close of closed channel" /\ UNCHANGED <<perrClosed, pbpc>>
       ELSE perrClosed' = TRUE /\ pbpc' = Then(ParseCloseOrder, pbpc) /\ UNCHANGED panicked
    /\ UNCHANGED <<envVars, unitVars, handles, discoveryVars, resultChVars,
                   errChVars, parserVars, parsedCh, parsedClosed, perrCh,
                   consumerVars>>

\* close(resultCh)
ParseBarrierCloseResult ==
    /\ Running /\ pbpc = "closeRes"
    /\ IF parsedClosed
       THEN panicked' = "close of closed channel" /\ UNCHANGED <<parsedClosed, pbpc>>
       ELSE parsedClosed' = TRUE /\ pbpc' = Then(ParseCloseOrder, pbpc) /\ UNCHANGED panicked
    /\ UNCHANGED <<envVars, unitVars, handles, discoveryVars, resultChVars,
                   errChVars, parserVars, parsedCh, perrCh, perrClosed, consumerVars>>

-----------------------------------------------------------------------------
(* MultiError *)

\* multierror.New()
New == <<>>
\* (*MultiError).Add
AddFirst(errs, err) == IF err # NilError THEN <<err>> \o errs ELSE errs
AddNil(errs, err) == Append(errs, err)
Add(errs, err) == IF err # NilError THEN Append(errs, err) ELSE errs
\* (*MultiError).Errors
Errors(errs) == errs
\* (*MultiError).HasErrors
NotNil(errs) == TRUE
HasErrors(errs) == Len(errs) > 0
\* A literal piece of the rendering, and err.Error(): the message of an error
\* stands for the error itself.
Literal(str) == [lit |-> str]
Message(err) == [msg |-> err]
\* The loop of (*MultiError).Error: for each error "\n- " and its message are
\* written to the strings.Builder.
RECURSIVE WriteErrors(_, _)
WriteErrors(sb, errs) ==
    IF errs = <<>> THEN sb
    ELSE WriteErrors(sb \o <<Literal("\n"), Literal("- "), Message(Head(errs))>>,
                     Tail(errs))
\* (*MultiError).Error: the pieces of the returned string, "" for no errors.
Error(errs) ==
    IF Len(errs) = 0 THEN <<>>
    ELSE WriteErrors(<<Literal("Multiple errors occurred:")>>, errs)

\* The errors a caller hands to Add: nil, a sentinel, io.EOF and an error of the
\* operating system.
AddArguments == {NilError, ErrorFileTooSmallToBeDICOM, EOF, PathError("open", 1)}

\* m.Add(err) on the collector of a run that makes nothing but Add calls
AddCall ==
    /\ mode = "collector" /\ Len(added) < MaxAdds
    /\ \E err \in AddArguments :
          /\ multiErr' = Add(multiErr, err)
          /\ added' = Append(added, err)
    /\ UNCHANGED <<envVars, result, recordVars, handles, discoveryVars, resultChVars,
                   errChVars, parseVars, dpc, dicomFiles, ret, mainVars, bridgeVars,
                   panicked>>

-----------------------------------------------------------------------------
(* The drain loop of the aggregate DiscoverDICOMFiles: a select over errCh *)
(* and resultCh, which takes any case that is ready.                       *)

NotReturned == [returned |-> FALSE, files |-> <<>>, isNil |-> TRUE, errs |-> <<>>]

\* if err != ErrorFileTooSmallToBeDICOM && err != ErrorInvalidMagicNumber
KeepAll(err) == TRUE
Kept(err) == ~Ignorable(err)

\* The select takes the case of errCh whenever a receive from it can complete,
\* whatever the state of resultCh.
ErrsAfterFiles == CanRecv(errCh, errClosed) /\ resultCh = <<>> /\ resultClosed
SelectsErr == CanRecv(errCh, errClosed)

\* case err := <-errCh (a closed, empty channel yields nil)
DrainErr ==
    /\ Running /\ mode = "aggregate" /\ dpc = "select"
    /\ SelectsErr
    /\ LET err == IF errCh # <<>> THEN Head(errCh) ELSE NilError IN
       /\ errCh' = IF errCh # <<>> THEN AfterRecv(errCh) ELSE errCh
       /\ multiErr' = IF Kept(err) THEN Add(multiErr, err) ELSE multiErr
    /\ UNCHANGED <<envVars, unitVars, handles, discoveryVars, resultChVars,
                   errClosed, parseVars, dpc, dicomFiles, ret, mainVars, bridgeVars, panicked>>

\* case file, ok := <-resultCh, ok: dicomFiles = append(dicomFiles, file)
DrainFile ==
    /\ Running /\ mode = "aggregate" /\ dpc = "select"
    /\ resultCh # <<>>
    /\ dicomFiles' = Append(dicomFiles, Head(resultCh))
    /\ resultCh' = AfterRecv(resultCh)
    /\ UNCHANGED <<envVars, unitVars, handles, discoveryVars, resultClosed,
                   errChVars, parseVars, dpc, multiErr, ret, mainVars, bridgeVars, panicked>>

\* case file, ok := <-resultCh, !ok: return dicomFiles, multiErr or nil
DrainReturn ==
    /\ Running /\ mode = "aggregate" /\ dpc = "select"
    /\ resultCh = <<>> /\ resultClosed
    /\ ret' = [returned |-> TRUE, files |-> dicomFiles,
               isNil |-> ~HasErrors(multiErr),
               errs |-> IF HasErrors(multiErr) THEN multiErr ELSE <<>>]
    /\ dpc' = "done"
    /\ UNCHANGED <<envVars, unitVars, handles, discoveryVars, resultChVars,
                   errChVars, parseVars, dicomFiles, multiErr, mainVars, bridgeVars, panicked>>

-----------------------------------------------------------------------------
(* The loop of the streaming command's main: a select over the parsed      *)
(* files, the parse errors and the discovery errors, until all three have  *)
(* been seen closed.                                                       *)

NoneSeen == [files |-> FALSE, discoveryErrors |-> FALSE, parsingErrors |-> FALSE]
\* for !filesClosed || !discoveryErrorsClosed || !parsingErrorsClosed
UntilOneClosed ==
    ~closedSeen.files /\ ~closedSeen.discoveryErrors /\ ~closedSeen.parsingErrors
LoopCondition ==
    ~closedSeen.files \/ ~closedSeen.discoveryErrors \/ ~closedSeen.parsingErrors

Looping == Running /\ mode = "streaming" /\ mpc = "loop" /\ LoopCondition

\* case parsedFile, ok := <-parsingResult.Files, ok: parsedCount++; parsedFile.Close()
MainFile ==
    /\ Looping /\ parsedCh # <<>>
    /\ parsedCount' = parsedCount + 1
    /\ handles' = RecordClose(Head(parsedCh), handles).store
    /\ parsedCh' = AfterRecv(parsedCh)
    /\ UNCHANGED <<envVars, unitVars, discoveryVars, resultChVars, errChVars,
                   parserVars, pbpc, parsedClosed, perrCh, perrClosed, drainVars, bridgeVars,
                   mpc, closedSeen, errorCount, surfaced, panicked>>

\* case parsedFile, ok := <-parsingResult.Files, !ok: filesClosed = true
MainFilesClosed ==
    /\ Looping /\ parsedCh = <<>> /\ parsedClosed
    /\ closedSeen' = [closedSeen EXCEPT !.files = TRUE]
    /\ UNCHANGED <<envVars, unitVars, handles, discoveryVars, resultChVars,
                   errChVars, parseVars, drainVars, bridgeVars, mpc, parsedCount, errorCount,
                   surfaced, panicked>>

\* case _, ok := <-parsingResult.Errors, ok: errorCount++
MainParseErr ==
    /\ Looping /\ perrCh # <<>>
    /\ errorCount' = errorCount + 1
    /\ surfaced' = surfaced \cup {Head(perrCh)}
    /\ perrCh' = AfterRecv(perrCh)
    /\ UNCHANGED <<envVars, unitVars, handles, discoveryVars, resultChVars,
                   errChVars, parserVars, pbpc, parsedCh, parsedClosed, perrClosed,
                   drainVars, bridgeVars, mpc, closedSeen, parsedCount, panicked>>

\* case _, ok := <-parsingResult.Errors, !ok: parsingErrorsClosed = true
MainParseErrClosed ==
    /\ Looping /\ perrCh = <<>> /\ perrClosed
    /\ closedSeen' = [closedSeen EXCEPT !.parsingErrors = TRUE]
    /\ UNCHANGED <<envVars, unitVars, handles, discoveryVars, resultChVars,
                   errChVars, parseVars, drainVars, bridgeVars, mpc, parsedCount, errorCount,
                   surfaced, panicked>>

\* case _, ok := <-discoveryResult.Errors, ok: errorCount++
MainDiscoveryErr ==
    /\ Looping /\ errCh # <<>>
    /\ errorCount' = errorCount + 1
    /\ surfaced' = surfaced \cup {Head(errCh)}
    /\ errCh' = AfterRecv(errCh)
    /\ UNCHANGED <<envVars, unitVars, handles, discoveryVars, resultChVars,
                   errClosed, parseVars, drainVars, bridgeVars, mpc, closedSeen, parsedCount,
                   panicked>>

\* case _, ok := <-discoveryResult.Errors, !ok: discoveryErrorsClosed = true
MainDiscoveryErrClosed ==
    /\ Looping /\ errCh = <<>> /\ errClosed
    /\ closedSeen' = [closedSeen EXCEPT !.discoveryErrors = TRUE]
    /\ UNCHANGED <<envVars, unitVars, handles, discoveryVars, resultChVars,
                   errChVars, parseVars, drainVars, bridgeVars, mpc, parsedCount, errorCount,
                   surfaced, panicked>>

\* The loop condition is false: writer.Flush() and the summary line.
MainExit ==
    /\ Running /\ mode = "streaming" /\ mpc = "loop" /\ ~LoopCondition
    /\ mpc' = "done"
    /\ UNCHANGED <<envVars, unitVars, handles, discoveryVars, resultChVars,
                   errChVars, parseVars, drainVars, bridgeVars, closedSeen, parsedCount,
                   errorCount, surfaced, panicked>>

-----------------------------------------------------------------------------
(* The bridge of the user interface (discoveryModel): discoverFiles starts  *)
(* the two stages and two collector goroutines that move what the stages   *)
(* emit into two buffers, and a timer whose DiscoveryCollectMsg makes      *)
(* Update run collectFiles, which takes the buffered records as one batch. *)

\* discoveryInProgress: false in NewDiscoveryModel and assigned nowhere else.
discoveryInProgress == FALSE

\* discoveryFinished := false; parseFinished := false
ErrorCollectorStarted == [pc |-> "loop", discoveryFinished |-> FALSE, parseFinished |-> FALSE]

Bridging == Running /\ mode = "bridge"

\* for !discoveryFinished && !parseFinished
CollectingErrors == Bridging /\ ec.pc = "loop" /\ ~ec.discoveryFinished /\ ~ec.parseFinished

\* addDiscoveryError, under discoveryErrorMutex
addDiscoveryError(errs, err) == Append(errs, err)

\* addFileToCollection, under discoveryMutex
addFileToCollection(files, file) == Append(files, file)

\* case err, ok := <-discoveryResult.Errors, ok: s.addDiscoveryError(err)
CollectDiscoveryErr ==
    /\ CollectingErrors /\ errCh # <<>>
    /\ discoveryErrors' = addDiscoveryError(discoveryErrors, Head(errCh))
    /\ errCh' = AfterRecv(errCh)
    /\ UNCHANGED <<envVars, unitVars, handles, discoveryVars, resultChVars, errClosed,
                   parseVars, drainVars, mainVars, collectedDiscoveryFiles,
                   collectorVars, pollVars, panicked>>

\* case err, ok := <-discoveryResult.Errors, !ok: discoveryFinished = true
CollectDiscoveryErrClosed ==
    /\ CollectingErrors /\ errCh = <<>> /\ errClosed
    /\ ec' = [ec EXCEPT !.discoveryFinished = TRUE]
    /\ UNCHANGED <<envVars, unitVars, handles, discoveryVars, resultChVars, errChVars,
                   parseVars, drainVars, mainVars, bufferVars, fcpc, appended,
                   pollVars, panicked>>

\* case err, ok := <-parseResults.Errors, ok: s.addDiscoveryError(err)
CollectParseErr ==
    /\ CollectingErrors /\ perrCh # <<>>
    /\ discoveryErrors' = addDiscoveryError(discoveryErrors, Head(perrCh))
    /\ perrCh' = AfterRecv(perrCh)
    /\ UNCHANGED <<envVars, unitVars, handles, discoveryVars, resultChVars, errChVars,
                   parserVars, pbpc, parsedCh, parsedClosed, perrClosed, drainVars,
                   mainVars, collectedDiscoveryFiles, collectorVars, pollVars,
                   panicked>>

\* case err, ok := <-parseResults.Errors, !ok: parseFinished = true
CollectParseErrClosed ==
    /\ CollectingErrors /\ perrCh = <<>> /\ perrClosed
    /\ ec' = [ec EXCEPT !.parseFinished = TRUE]
    /\ UNCHANGED <<envVars, unitVars, handles, discoveryVars, resultChVars, errChVars,
                   parseVars, drainVars, mainVars, bufferVars, fcpc, appended,
                   pollVars, panicked>>

\* The loop condition is false: the error collector returns.
CollectErrReturn ==
    /\ Bridging /\ ec.pc = "loop" /\ ~(~ec.discoveryFinished /\ ~ec.parseFinished)
    /\ ec' = [ec EXCEPT !.pc = "done"]
    /\ UNCHANGED <<envVars, unitVars, handles, discoveryVars, resultChVars, errChVars,
                   parseVars, drainVars, mainVars, bufferVars, fcpc, appended,
                   pollVars, panicked>>

\* for file := range parseResults.Files { s.addFileToCollection(file) }
CollectFile ==
    /\ Bridging /\ fcpc = "range" /\ parsedCh # <<>>
    /\ collectedDiscoveryFiles' = addFileToCollection(collectedDiscoveryFiles, Head(parsedCh))
    /\ appended' = [appended EXCEPT ![Head(parsedCh).Path] = @ + 1]
    /\ parsedCh' = AfterRecv(parsedCh)
    /\ UNCHANGED <<envVars, unitVars, handles, discoveryVars, resultChVars, errChVars,
                   parserVars, pbpc, parsedClosed, perrCh, perrClosed, drainVars,
                   mainVars, discoveryErrors, ec, fcpc, pollVars, panicked>>

\* The range loop ends when parseResults.Files is closed and empty.
CollectFileReturn ==
    /\ Bridging /\ fcpc = "range" /\ parsedCh = <<>> /\ parsedClosed
    /\ fcpc' = "done"
    /\ UNCHANGED <<envVars, unitVars, handles, discoveryVars, resultChVars, errChVars,
                   parseVars, drainVars, mainVars, bufferVars, ec, appended, pollVars,
                   panicked>>

\* if s.discoveryInProgress || !s.collectionFinished
AlwaysPolling == TRUE
KeepPolling == discoveryInProgress \/ ~collectionFinished

\* A collectFiles call that tea.Batch has started.
PollStarted == [pc |-> "read", batch |-> <<>>]

\* The timer fires and Update handles its DiscoveryCollectMsg: it starts the
\* next timer and a collectFiles call, or neither.
UpdateCollectMsg ==
    /\ Bridging /\ ticks > 0
    /\ IF KeepPolling
       THEN /\ BagCardinality(polls) < MaxPolls
            /\ polls' = polls (+) SetToBag({PollStarted})
            /\ UNCHANGED ticks
       ELSE /\ ticks' = ticks - 1
            /\ UNCHANGED polls
    /\ UNCHANGED <<envVars, unitVars, handles, discoveryVars, resultChVars, errChVars,
                   parseVars, drainVars, mainVars, bufferVars, collectorVars,
                   collectionFinished, delivered, panicked>>

\* collectedFiles := s.collectedDiscoveryFiles, read without the lock
PollRead(q) ==
    /\ Bridging /\ q.pc = "read"
    /\ polls' = Step(polls, q, [pc |-> "swap", batch |-> collectedDiscoveryFiles])
    /\ UNCHANGED <<envVars, unitVars, handles, discoveryVars, resultChVars, errChVars,
                   parseVars, drainVars, mainVars, bufferVars, collectorVars,
                   collectionFinished, ticks, delivered, panicked>>

\* len(collectedFiles) == 0
AnyBatch(batch) == TRUE
NoRecords(batch) == Len(batch) = 0

\* The lock, s.collectedDiscoveryFiles = make(...), the unlock, the test that sets
\* collectionFinished, and the return of the batch as a CollectedDICOMFiles.
PollSwap(q) ==
    /\ Bridging /\ q.pc = "swap"
    /\ collectedDiscoveryFiles' = <<>>
    /\ collectionFinished' = IF NoRecords(q.batch) THEN TRUE ELSE collectionFinished
    /\ delivered' = [p \in Paths |->
                        delivered[p] + Occurrences(PathsOf(q.batch), p)]
    /\ polls' = polls (-) SetToBag({q})
    /\ UNCHANGED <<envVars, unitVars, handles, discoveryVars, resultChVars, errChVars,
                   parseVars, drainVars, mainVars, discoveryErrors, collectorVars,
                   ticks, panicked>>

-----------------------------------------------------------------------------
(* The specification of the pipeline runs: DiscoverDICOMFiles(dir, mc) in  *)
(* aggregate form, or the streaming main, with every goroutine started.    *)

\* A run of calls on one record: the record a parse worker has sent for a
\* file, as its receiver gets it.
NoRecord == [Path |-> 0, handle |-> 0, isOpen |-> FALSE]
NoCall == [op |-> "none", handle |-> 0, err |-> NilError, n |-> 0]

\* The handle of the file f after isValidDICOM and saveParseUntilEOF.
DecodedHandle(f) == saveParseUntilEOF(f, isValidDICOM(f, 1).file).file

\* handle, err := parsedFile.GetHandle(), the file being there or not
GetHandle ==
    /\ mode = "record" /\ last.n < MaxCalls
    /\ \E canOpen \in BOOLEAN :
          LET r == RecordGetHandle(rec, opened, [fs[1].file EXCEPT !.canOpen = canOpen]) IN
          /\ rec' = r.rec
          /\ opened' = r.store
          /\ last' = [op |-> "GetHandle", handle |-> r.handle, err |-> r.err,
                      n |-> last.n + 1]
    /\ UNCHANGED <<envVars, result, added, handles, discoveryVars, resultChVars,
                   errChVars, parseVars, consumerVars, panicked>>

\* err := parsedFile.Close()
RecordCloseCall ==
    /\ mode = "record" /\ last.n < MaxCalls
    /\ LET r == RecordClose(rec, opened) IN
       /\ rec' = r.rec
       /\ opened' = r.store
       /\ last' = [op |-> "Close", handle |-> 0, err |-> r.err, n |-> last.n + 1]
    /\ UNCHANGED <<envVars, result, added, handles, discoveryVars, resultChVars,
                   errChVars, parseVars, consumerVars, panicked>>

\* The state in which the goroutines of a run have been started.
Started ==
    /\ handles = [p \in Paths |-> NoHandle]
    /\ result = NotCalled
    /\ rec = IF mode = "record" THEN ParsedDicomFile(1) ELSE NoRecord
    /\ opened = IF mode = "record" THEN <<DecodedHandle(fs[1].file)>> ELSE <<>>
    /\ last = NoCall
    /\ added = <<>>
    /\ wpos = NextStage(0)
    /\ wpc = "run"
    /\ fileCh = <<>> /\ fileClosed = FALSE
    /\ resultCh = <<>> /\ resultClosed = FALSE
    /\ errCh = <<>> /\ errClosed = FALSE
    /\ vw = Pool(mc)
    /\ wg = mc
    /\ bpc = "wait"
    /\ pw = Pool(mc)
    /\ pwg = mc
    /\ pbpc = "wait"
    /\ parsedCh = <<>> /\ parsedClosed = FALSE
    /\ perrCh = <<>> /\ perrClosed = FALSE
    /\ dpc = "select"
    /\ dicomFiles = <<>>
    /\ multiErr = New
    /\ ret = NotReturned
    /\ mpc = "loop"
    /\ closedSeen = NoneSeen
    /\ parsedCount = 0
    /\ errorCount = 0
    /\ panicked = ""
    /\ errSent = EmptyBag
    /\ realSent = <<>>
    /\ recvBy = [p \in Paths |-> 0]
    /\ parsedBy = [p \in Paths |-> 0]
    /\ verrSent = [p \in Paths |-> 0]
    /\ fileSent = [p \in Paths |-> 0]
    /\ perrSent = [p \in Paths |-> 0]
    /\ recSent = [p \in Paths |-> 0]
    /\ surfaced = {}
    /\ collectedDiscoveryFiles = <<>>
    /\ discoveryErrors = <<>>
    /\ collectionFinished = FALSE
    /\ ec = ErrorCollectorStarted
    /\ fcpc = "range"
    /\ ticks = IF mode = "bridge" THEN 1 ELSE 0
    /\ polls = EmptyBag
    /\ appended = [p \in Paths |-> 0]
    /\ delivered = [p \in Paths |-> 0]

Init ==
    /\ mode \in {"aggregate", "streaming"}
    /\ fs \in Trees(mode)
    /\ mc \in {EffectiveConcurrency(n) : n \in 1..MaxConc}
    /\ Started

Walker ==
    \/ WalkerSendErr
    \/ WalkerNilEntry
    \/ WalkerSendPath
    \/ WalkerClose

Validators ==
    \/ \E w \in WorkersOf(vw) : WorkerRecv(w)
    \/ \E w \in WorkersOf(vw) : WorkerSendErr(w)
    \/ \E w \in WorkersOf(vw) : WorkerSendResult(w)
    \/ \E w \in WorkersOf(vw) : WorkerReturn(w)

Barrier ==
    \/ BarrierWait
    \/ BarrierCloseErr
    \/ BarrierCloseResult

Discovery == Walker \/ Validators \/ Barrier

Parsers ==
    \/ \E w \in WorkersOf(pw) : ParserRecv(w)
    \/ \E w \in WorkersOf(pw) : ParserSendErr(w)
    \/ \E w \in WorkersOf(pw) : ParserCloseHandle(w)
    \/ \E w \in WorkersOf(pw) : ParserSendResult(w)
    \/ \E w \in WorkersOf(pw) : ParserReturn(w)

ParseBarrier ==
    \/ ParseBarrierWait
    \/ ParseBarrierCloseErr
    \/ ParseBarrierCloseResult

Parsing == Parsers \/ ParseBarrier

Drain ==
    \/ DrainErr
    \/ DrainFile
    \/ DrainReturn

Main ==
    \/ MainFile
    \/ MainFilesClosed
    \/ MainParseErr
    \/ MainParseErrClosed
    \/ MainDiscoveryErr
    \/ MainDiscoveryErrClosed
    \/ MainExit

Next == Discovery \/ Parsing \/ Drain \/ Main

Spec == Init /\ [][Next]_vars

InitValid ==
    /\ mode = "unit"
    /\ fs \in {<<Callback("file", FALSE, f)>> : f \in UnitFiles}
    /\ mc = 1
    /\ Started

NextValid == UnitValidate

SpecValid == InitValid /\ [][NextValid]_vars

\* The calls of GetHandle and Close on the record of a decoded file, in any order.
InitRecord ==
    /\ mode = "record"
    /\ fs \in {<<Callback("file", FALSE, RegularFile(size, DICM, TRUE, "ok"))>> :
                  size \in HeaderLen..MaxSize}
    /\ mc = 1
    /\ Started

NextRecord == GetHandle \/ RecordCloseCall

SpecRecord == InitRecord /\ [][NextRecord]_vars

\* A MultiError from New and the Add calls made on it.
InitCollector ==
    /\ mode = "collector"
    /\ fs = <<Callback("dir", FALSE, NoFile)>>
    /\ mc = 1
    /\ Started

NextCollector == AddCall

SpecCollector == InitCollector /\ [][NextCollector]_vars

\* The streaming command under the Go scheduler: a goroutine that can take a
\* step eventually takes one.
InitFair ==
    /\ mode = "streaming"
    /\ fs \in FairTrees
    /\ mc \in {EffectiveConcurrency(n) : n \in 1..FairConc}
    /\ Started

NextFair == Discovery \/ Parsing \/ Main

Fairness ==
    /\ WF_vars(Walker)
    /\ WF_vars(Validators)
    /\ WF_vars(Barrier)
    /\ WF_vars(Parsers)
    /\ WF_vars(ParseBarrier)
    /\ WF_vars(Main)

SpecFair == InitFair /\ [][NextFair]_vars /\ Fairness

\* The aggregate DiscoverDICOMFiles under the Go scheduler.
InitAggregate ==
    /\ mode = "aggregate"
    /\ fs \in Trees(mode)
    /\ mc \in {EffectiveConcurrency(n) : n \in 1..MaxConc}
    /\ Started

NextAggregate == Discovery \/ Drain

FairAggregate ==
    /\ WF_vars(Walker)
    /\ WF_vars(Validators)
    /\ WF_vars(Barrier)
    /\ WF_vars(Drain)

SpecAggregate == InitAggregate /\ [][NextAggregate]_vars /\ FairAggregate

\* The bridge: discoverFiles has started the stages, the collectors and the timer.
BridgeFiles == {ValidFile, CorruptFile, SmallFile}
BridgeTrees ==
    {<<Callback("nil", TRUE, NoFile)>>}
        \cup {<<Callback("dir", FALSE, NoFile)>> \o t :
                 t \in SeqsUpTo({Callback("file", FALSE, f) : f \in BridgeFiles}, FairEntries)}

InitBridge ==
    /\ mode = "bridge"
    /\ fs \in BridgeTrees
    /\ mc \in {EffectiveConcurrency(n) : n \in 1..BridgeConc}
    /\ Started

ErrorCollector ==
    \/ CollectDiscoveryErr
    \/ CollectDiscoveryErrClosed
    \/ CollectParseErr
    \/ CollectParseErrClosed
    \/ CollectErrReturn

FileCollector ==
    \/ CollectFile
    \/ CollectFileReturn

Polling ==
    \/ \E q \in BagToSet(polls) : PollRead(q)
    \/ \E q \in BagToSet(polls) : PollSwap(q)

NextBridge ==
    Discovery \/ Parsing \/ ErrorCollector \/ FileCollector \/ UpdateCollectMsg \/ Polling

FairBridge ==
    /\ Fairness
    /\ WF_vars(ErrorCollector)
    /\ WF_vars(FileCollector)
    /\ WF_vars(UpdateCollectMsg)
    /\ WF_vars(Polling)

SpecBridge == InitBridge /\ [][NextBridge]_vars /\ FairBridge

\* The streaming command with one worker per stage and with the default number
\* of workers, which a maxConcurrency of 0 stands for.
BufferTrees ==
    {<<Callback("nil", TRUE, NoFile)>>}
        \cup {<<Callback("dir", FALSE, NoFile)>> \o t :
                 t \in SeqsUpTo({Callback("file", FALSE, f) : f \in BridgeFiles}, MaxEntries)}

InitBuffers ==
    /\ mode = "streaming"
    /\ fs \in BufferTrees
    /\ mc \in {EffectiveConcurrency(n) : n \in 0..BridgeConc}
    /\ Started

SpecBuffers == InitBuffers /\ [][NextFair]_vars

\* The goroutines that discoverFiles starts, without the timer, on the trees of
\* the bridge and on a directory with one more undecodable file than the parse
\* error channel can buffer.
FaultTrees ==
    BridgeTrees
        \cup {<<Callback("dir", FALSE, NoFile)>>
                 \o [i \in 1..(ParseBufFactor * BridgeConc + 1) |->
                        Callback("file", FALSE, CorruptFile)]}

InitPipeline ==
    /\ mode = "bridge"
    /\ fs \in FaultTrees
    /\ mc \in {EffectiveConcurrency(n) : n \in 1..BridgeConc}
    /\ Started

NextPipeline == Discovery \/ Parsing \/ ErrorCollector \/ FileCollector

FairPipeline ==
    /\ Fairness
    /\ WF_vars(ErrorCollector)
    /\ WF_vars(FileCollector)

SpecPipeline == InitPipeline /\ [][NextPipeline]_vars /\ FairPipeline

-----------------------------------------------------------------------------
(* Properties *)

Range(q) == {q[i] : i \in 1..Len(q)}
NoDuplicates(q) == \A i, j \in 1..Len(q) : q[i] = q[j] => i = j
MatchingPaths == {p \in Paths : Matching(p)}

\* The scenario of the specification: a.dcm valid, b.txt of 23 bytes, c.dcm with
\* a wrong signature.
ScenarioTree ==
    <<Callback("dir", FALSE, NoFile), Callback("file", FALSE, ValidFile),
      Callback("file", FALSE, SmallFile), Callback("file", FALSE, BadMagicFile)>>

\* The files received from the streaming Files channel, once it is closed and empty.
FilesDrained == mode = "streaming" /\ resultClosed /\ resultCh = <<>>

\* C1: discovery delivers exactly the matching files, each once and nothing else:
\* the aggregate run returns a slice without duplicates whose elements are the
\* matching paths, and once the streaming Files channel is closed and drained each
\* matching path has been received from it once and no other path ever.  On the
\* scenario tree with concurrency 2 the aggregate run returns a.dcm alone and a
\* nil error.
C1_ExactlyTheMatchingFiles ==
    /\ ret.returned =>
          /\ NoDuplicates(ret.files)
          /\ Range(ret.files) = MatchingPaths
          /\ Len(ret.files) = Cardinality(MatchingPaths)
    /\ ret.returned /\ fs = ScenarioTree /\ mc = 2 => ret.files = <<2>> /\ ret.isNil
    /\ mode = "streaming" => \A p \in Paths : parsedBy[p] > 0 => Matching(p)
    /\ FilesDrained => \A p \in Paths : parsedBy[p] = IF Matching(p) THEN 1 ELSE 0

\* The aggregate run has returned on the scenario tree with concurrency 2.
C1_ScenarioReturned ==
    ret.returned /\ fs = ScenarioTree /\ mc = 2 /\ mode = "aggregate"

\* C2: every real error sent on the error channel of the aggregate run is in the
\* MultiError it returns.
C2_NoRealErrorLost ==
    ret.returned =>
        \A e \in BagToSet(errSent) :
            RealError(e) => Occurrences(ret.errs, e) = CopiesIn(e, errSent)

\* C3: the MultiError of the aggregate run holds neither of the two ignorable
\* errors nor nil, while it is collected and when it is returned.
C3_NoIgnorableInMultiError ==
    /\ \A i \in 1..Len(multiErr) : RealError(multiErr[i])
    /\ \A i \in 1..Len(ret.errs) : RealError(ret.errs[i])

\* The aggregate run returned a MultiError after ignorable errors had been sent and
\* the closed error channel had been drained.
C3_ReturnedAfterIgnorable ==
    /\ ret.returned /\ ~ret.isNil /\ errCh = <<>>
    /\ \E e \in BagToSet(errSent) : Ignorable(e)

\* C4: no ignorable error is delivered on the streaming Errors channel or received
\* (and counted) by the streaming caller.
C4_NoIgnorableSurfaced ==
    mode = "streaming" =>
        /\ \A i \in 1..Len(errCh) : ~Ignorable(errCh[i])
        /\ \A e \in surfaced : ~Ignorable(e)

\* C5: in each stage, when the result channel is closed the error channel is closed.
C5_ErrorChannelClosedFirst ==
    /\ resultClosed => errClosed
    /\ parsedClosed => perrClosed

\* Both stages of a streaming run have closed both channels.
C5_AllClosed ==
    mode = "streaming" /\ resultClosed /\ errClosed /\ parsedClosed /\ perrClosed

AllReturned(pool) == WorkersOf(pool) \subseteq {DoneWorker}

\* C6: a stage's output channels are closed only when every worker of the stage
\* (and, for discovery, the walker) has returned, no channel is closed twice and
\* no goroutine sends on a closed channel.
C6_ClosedOnlyAfterWorkers ==
    /\ panicked \notin {"send on closed channel", "close of closed channel"}
    /\ errClosed \/ resultClosed => AllReturned(vw) /\ wg = 0 /\ wpc = "done"
    /\ perrClosed \/ parsedClosed => AllReturned(pw) /\ pwg = 0

\* Discovery has closed its channels in a run in which the walker sent an error.
C6_ClosedAfterWalkerError ==
    /\ errClosed /\ resultClosed
    /\ \E e \in BagToSet(errSent) : e.kind = "walk"

\* The entities that hold the handle of path p: a validator about to send it, a
\* slot of the result channel, a parse worker, a slot of the parsed channel, the
\* slice of the aggregate caller.
HeldIn(pool, p, pcs) ==
    LET holding == {w \in WorkersOf(pool) : w.path = p /\ w.pc \in pcs} IN
    IF holding = {} THEN 0
    ELSE BagCardinality([w \in holding |-> CopiesIn(w, pool)])

Holders(p) ==
    HeldIn(vw, p, {"sendRes"}) + Occurrences(resultCh, p)
        + HeldIn(pw, p, {"sendErr", "close", "sendRes"}) + Occurrences(PathsOf(parsedCh), p)
        + Occurrences(dicomFiles, p)

\* C7: a path is received by at most one validator worker and a validated file by
\* at most one parse worker, by exactly one once the channel that carried it is
\* closed and empty; a handle never has two holders, and an open one has one.
C7_ExclusiveOwnership ==
    \A p \in Paths :
        /\ recvBy[p] <= 1 /\ parsedBy[p] <= 1
        /\ fileClosed /\ fileCh = <<>> /\ fs[p].d = "file" => recvBy[p] = 1
        /\ FilesDrained /\ Matching(p) => parsedBy[p] = 1
        /\ Holders(p) <= 1
        /\ handles[p].state = "open" => Holders(p) = 1

\* Two parse workers hold two different files at the same time.
C7_TwoFilesInFlight ==
    \E a, b \in WorkersOf(pw) : a.path > 0 /\ b.path > 0 /\ a.path # b.path

Readable(f) == f.canOpen /\ f.canRead

\* C8: isValidDICOM returns ErrorFileTooSmallToBeDICOM for every readable file of
\* fewer than 132 bytes.
C8_SmallIsTooSmall ==
    result.called /\ Readable(UnitFile) /\ UnitFile.size < HeaderLen
        => result.err = ErrorFileTooSmallToBeDICOM

\* The result of isValidDICOM on the file with another preamble byte.
WithPreamble(f, b) == isValidDICOM([f EXCEPT !.pre = b], 1)

\* C9: on a readable file of at least 132 bytes isValidDICOM returns
\* ErrorInvalidMagicNumber exactly when bytes [128,132) differ from "DICM" and
\* (true, handle, nil) when they are equal, whatever the first 128 bytes are.
C9_MagicDecides ==
    result.called /\ Readable(UnitFile) /\ UnitFile.size >= HeaderLen =>
        /\ result.err = ErrorInvalidMagicNumber <=> UnitFile.sig # DICM
        /\ UnitFile.sig = DICM =>
              result.valid /\ result.handle = "file" /\ result.err = NilError
        /\ \A b \in PreambleBytes :
              LET r == WithPreamble(UnitFile, b) IN
              r.valid = result.valid /\ r.err = result.err /\ r.handle = result.handle

\* isValidDICOM has accepted a file whose preamble starts like the signature.
C9_AcceptedWithPreamble ==
    result.called /\ result.valid /\ UnitFile.pre = "D" /\ UnitFile.size > HeaderLen

\* C10: when isValidDICOM returns success the handle is open and its offset is 0.
C10_HandleRewound ==
    result.called /\ result.valid =>
        handles[1].state = "open" /\ handles[1].pos = 0

\* isValidDICOM has returned success on a file longer than the header.
C10_Accepted ==
    result.called /\ result.valid /\ result.handle = "file" /\ UnitFile.size > HeaderLen

\* C11: when isValidDICOM does not return success, whether open or read failed,
\* the file was too small or the signature wrong, the handle it returns is nil
\* and the file it opened, if any, is closed.
C11_FailureClosesHandle ==
    result.called /\ ~result.valid =>
        /\ result.handle = "nil"
        /\ result.err # NilError
        /\ handles[1].state # "open"
        /\ UnitFile.canOpen => handles[1].state = "closed"

\* isValidDICOM has failed on a read error after it had opened the file.
C11_ReadFailed ==
    result.called /\ ~result.valid /\ result.err = PathError("read", 1)
        /\ handles[1].state = "closed"

\* The paths a tree of the fair runs can have.
FairPaths == 1..(FairEntries + 1)

\* A validated file on which the decoder returns an error or panics.
Faulty(p) == p \in Paths /\ Matching(p) /\ fs[p].file.decode # "ok"

\* A parse worker has received p and has not yet sent its error.
Deciding(p) == \E w \in WorkersOf(pw) : w.path = p /\ w.pc = "sendErr"

DecoderFaultContained ==
    /\ panicked # "decoder panic"
    /\ \A w \in WorkersOf(pw) : w.pc = "sendErr" => RealError(w.err)
    /\ \A i \in 1..Len(perrCh) : RealError(perrCh[i])
    /\ \A p \in Paths :
          Faulty(p) =>
              /\ recSent[p] = 0
              /\ perrSent[p] <= 1
              /\ parsedBy[p] = 1 /\ ~Deciding(p) => perrSent[p] = 1
    /\ BagCardinality(pw) = mc
    /\ DoneWorker \in WorkersOf(pw) => resultClosed /\ resultCh = <<>>

\* C12: when the decoder returns an error or panics on a file, the parse worker
\* sends exactly one real error for the file and no record, the panic does not
\* end the process, no parse worker returns before the input channel is closed
\* and drained, and the handle of the file is eventually closed.
C12_DecoderFaultContained ==
    /\ []DecoderFaultContained
    /\ \A p \in FairPaths :
          (Faulty(p) /\ parsedBy[p] = 1) ~> (p \in Paths /\ handles[p].state = "closed")

\* The only parse worker has sent the error of a file on which the decoder
\* panicked, has closed its handle and has received the next file.
C12_WorkerWentOn ==
    /\ mc = 1
    /\ \E p, q \in Paths :
          /\ p < q /\ Faulty(p) /\ fs[p].file.decode = "panicValue"
          /\ perrSent[p] = 1 /\ handles[p].state = "closed"
          /\ parsedBy[q] = 1

\* A parse worker is blocked sending the error of p on the full error channel.
BlockedReporting(p) == Deciding(p) /\ ~CanSend(perrCh, perrClosed, ParseCap)

\* C13: the handle of a file is closed when its decode error has been sent on
\* the parse error channel, and when a worker is blocked sending it.
C13_ClosedBeforeReported ==
    \A p \in Paths :
        perrSent[p] > 0 \/ BlockedReporting(p) => handles[p].state = "closed"

IsPrefix(q, r) == Len(q) <= Len(r) /\ q = SubSeq(r, 1, Len(q))

\* The lines of a rendering: its pieces between the line breaks.
RECURSIVE SplitLines(_)
SplitLines(text) ==
    IF text = <<>> THEN << <<>> >>
    ELSE LET rest == SplitLines(Tail(text)) IN
         IF Head(text) = Literal("\n") THEN << <<>> >> \o rest
         ELSE << <<Head(text)>> \o rest[1] >> \o Tail(rest)

\* C14: the MultiError of the aggregate run holds the real errors in the order
\* they were sent on the error channel, while it is collected and when it is
\* returned, and Error() renders the returned one as the header line followed by
\* one line "- <message>" per error in that order.
C14_CompletionOrder ==
    mode = "aggregate" =>
        /\ IsPrefix(multiErr, realSent)
        /\ ret.returned => IsPrefix(ret.errs, realSent)
        /\ ret.returned /\ ~ret.isNil =>
              LET lines == SplitLines(Error(ret.errs)) IN
              /\ Len(lines) = Len(ret.errs) + 1
              /\ lines[1] = <<Literal("Multiple errors occurred:")>>
              /\ \A i \in 1..Len(ret.errs) :
                    lines[i + 1] = <<Literal("- "), Message(ret.errs[i])>>

\* The aggregate run returned two errors, the error of the file walked later first.
C14_ReturnedOutOfWalkOrder ==
    /\ ret.returned /\ Len(ret.errs) >= 2
    /\ ret.errs[1].path > ret.errs[2].path

\* The real errors the drain loop has received: those sent and no longer buffered.
RealReceived == Len(realSent) - Len(SelectSeq(errCh, RealError))

\* C15: the aggregate run returns a nil error exactly when its drain loop has
\* received no real error, and otherwise a MultiError of at least one error; in
\* both cases it returns the files it collected.
C15_NilIffNoRealError ==
    ret.returned =>
        /\ ret.isNil <=> RealReceived = 0
        /\ ~ret.isNil => Len(ret.errs) >= 1 /\ Len(ret.errs) = RealReceived
        /\ ret.isNil => ret.errs = <<>>
        /\ ret.files = dicomFiles

\* The aggregate run returned a file together with a MultiError.
C15_FilesWithError ==
    ret.returned /\ ~ret.isNil /\ Len(ret.files) >= 1

\* C16: every record appended to the bridge's buffer is in the buffer or in the
\* batch of exactly one collectFiles call that has returned, for every
\* interleaving of collectFiles with the record collector.
C16_NoRecordLostOrRepeated ==
    \A p \in Paths :
        /\ delivered[p] <= 1
        /\ polls = EmptyBag =>
              appended[p] = delivered[p] + Occurrences(PathsOf(collectedDiscoveryFiles), p)

\* C17: a collectFiles call that read a batch of at least one record leaves
\* collectionFinished as it was.
C17_PollWithRecordsKeepsFlag ==
    [][\A q \in BagToSet(polls) :
          PollSwap(q) /\ Len(q.batch) >= 1 => collectionFinished' = collectionFinished]_vars

\* A collectFiles call has returned a record and collectionFinished is not set.
C17_BatchReturned ==
    /\ mode = "bridge" /\ ~collectionFinished
    /\ \E p \in Paths : delivered[p] >= 1

\* The parse record channel is closed and drained and the record collector
\* has returned.
PipelineFinished == mode = "bridge" /\ parsedClosed /\ parsedCh = <<>> /\ fcpc = "done"

\* C18: once the pipeline has finished collectionFinished becomes true; the flag
\* never goes back to false; a DiscoveryCollectMsg handled when it is true starts
\* neither a timer nor a collectFiles call, and in the end no timer is pending
\* and no collectFiles call is running.
C18_PollingStops ==
    /\ [][collectionFinished => collectionFinished']_vars
    /\ [][collectionFinished /\ UpdateCollectMsg => polls' = polls /\ ticks' = ticks - 1]_vars
    /\ PipelineFinished ~> (collectionFinished /\ ticks = 0 /\ polls = EmptyBag)

\* The pipeline has finished, a record was returned in a batch, the flag is set
\* and nothing is scheduled any more.
C18_Stopped ==
    /\ PipelineFinished /\ collectionFinished /\ ticks = 0 /\ polls = EmptyBag
    /\ \E p \in Paths : delivered[p] = 1

\* C19: the error collector of the bridge returns only when both error channels
\* are closed and drained, so that no error a stage sent stays unreceived.
C19_ErrorCollectorDrainsBoth ==
    ec.pc = "done" =>
        /\ errClosed /\ errCh = <<>>
        /\ perrClosed /\ perrCh = <<>>

\* The sum of a count per path.
RECURSIVE Total(_, _)
Total(count, S) ==
    IF S = {} THEN 0
    ELSE LET p == CHOOSE x \in S : TRUE IN count[p] + Total(count, S \ {p})

MainLoopExitedClean ==
    mpc = "done" =>
        /\ closedSeen.files /\ closedSeen.discoveryErrors /\ closedSeen.parsingErrors
        /\ parsedClosed /\ perrClosed /\ errClosed
        /\ parsedCh = <<>> /\ perrCh = <<>> /\ errCh = <<>>
        /\ parsedCount = Total(recSent, Paths)
        /\ errorCount = Total(perrSent, Paths) + BagCardinality(errSent)

\* C20: the loop of the streaming main exits only when it has seen the parse
\* record channel, the parse error channel and the discovery error channel
\* closed; at the exit the three channels are closed and empty and every record
\* and every error that was sent has been counted once; and on every tree whose
\* root can be read the loop does exit under fair scheduling.
C20_LoopExitsAfterAllClosed ==
    /\ []MainLoopExitedClean
    /\ (fs[1].d = "dir") ~> (mpc = "done")

\* The loop has exited after counting a record and an error.
C20_ExitedWithBoth ==
    mode = "streaming" /\ mpc = "done" /\ parsedCount >= 1 /\ errorCount >= 1

-----------------------------------------------------------------------------
(* Termination of the aggregate discovery *)

\* Every goroutine of the aggregate discovery has returned.
DiscoveryReturned ==
    /\ ret.returned
    /\ wpc = "done"
    /\ WorkersOf(vw) = {DoneWorker}
    /\ bpc = "done"

\* C21: under fair scheduling the aggregate DiscoverDICOMFiles on a directory
\* tree returns, and the walker, the workers and the barrier have returned too:
\* none stays blocked, however many errors the run produces.
C21_AggregateTerminates == (fs[1].d = "dir") ~> DiscoveryReturned

\* The call has returned from a run with one worker that sent more errors than
\* errCh can buffer.
C21_ReturnedAfterManyErrors ==
    /\ DiscoveryReturned
    /\ mc = 1
    /\ BagCardinality(errSent) > DiscoveryCap

-----------------------------------------------------------------------------
(* Draining of the pipeline that the bridge starts *)

\* Both stages and both collectors of the bridge have returned.
PipelineDrained ==
    /\ wpc = "done" /\ AllReturned(vw) /\ bpc = "done"
    /\ AllReturned(pw) /\ pbpc = "done"
    /\ ec.pc = "done" /\ fcpc = "done"

\* C22: under fair scheduling the pipeline started by the bridge on a directory
\* tree drains: the walker, the workers of both stages, both barriers and both
\* collectors return, and no parse worker stays blocked on the parse error
\* channel.
C22_BridgePipelineDrains == (mode = "bridge" /\ fs[1].d = "dir") ~> PipelineDrained

-----------------------------------------------------------------------------
(* The flag collectionFinished *)

\* C23: whenever collectionFinished is true the channel of parsed files is closed
\* and empty and the collector of records has returned, so that no record
\* reaches the buffer after the flag is set.
C23_FinishedMeansDrained ==
    collectionFinished => parsedClosed /\ parsedCh = <<>> /\ fcpc = "done"

-----------------------------------------------------------------------------
(* The two lists of the bridge *)

\* C24: a poll empties both lists: when collectFiles swaps the buffer out, the
\* list of errors is empty afterwards as well, its content having gone to the
\* consumer with the batch.
C24_PollEmptiesBothLists ==
    [][(\E q \in BagToSet(polls) : PollSwap(q)) => discoveryErrors' = <<>>]_vars

-----------------------------------------------------------------------------
(* The record of a decoded file *)

\* The decoder accepts the file of path p.
Decodable(p) == Matching(p) /\ fs[p].file.decode = "ok"

-----------------------------------------------------------------------------
(* The walk *)

\* C26: a traversal error does not halt the walk: after the walker has sent
\* the error of a callback, on the root as on any other entry, nothing has
\* panicked, and a walker that has returned has closed the path channel.
C26_ErrorDoesNotHaltWalk ==
    \A k \in Paths :
        fs[k].err /\ BagIn(PathError("walk", k), errSent)
            => panicked = "" /\ (wpc = "done" => fileClosed)

-----------------------------------------------------------------------------
(* One outcome per file *)

\* The outcomes the validators have sent for the path p, and the outcomes the
\* parse workers have sent for its file.
Validated(p) == fileSent[p] + verrSent[p]
Decoded(p) == recSent[p] + perrSent[p]

\* C27: a path gets at most one of DicomFile and validation error, and exactly
\* one once a worker has received it and gone on; a validated file gets at most
\* one of record and parse error, exactly one once a parse worker has received
\* it and gone on, and none if it was not validated.  When the discovery stage
\* has closed its channels the paths of the tree are as many as the DicomFiles
\* and the validation errors together; when the parsing stage has closed its
\* channels the DicomFiles are as many as the records and the parse errors.
C27_OneOutcomePerFile ==
    /\ \A p \in Paths :
          /\ Validated(p) <= 1
          /\ Decoded(p) <= fileSent[p]
          /\ recvBy[p] >= 1 /\ HeldIn(vw, p, {"sendErr", "sendRes"}) = 0
                => Validated(p) = 1
          /\ parsedBy[p] >= 1 /\ HeldIn(pw, p, {"sendErr", "close", "sendRes"}) = 0
                => Decoded(p) = 1
    /\ resultClosed =>
          Cardinality(FilePaths) = Total(fileSent, Paths) + Total(verrSent, Paths)
    /\ parsedClosed =>
          Total(fileSent, Paths) = Total(recSent, Paths) + Total(perrSent, Paths)

\* The streaming run of a tree with a failure at each stage and a file that
\* passes both has closed all its channels.
C27_MixedOutcomes ==
    /\ mode = "streaming" /\ parsedClosed
    /\ \E p \in Paths : verrSent[p] = 1
    /\ Total(perrSent, Paths) + Total(recSent, Paths) = 1

-----------------------------------------------------------------------------
(* The handle of a record *)

OpenHandles == {i \in 1..Len(opened) : opened[i].state = "open"}

\* What a call of Close and a call of GetHandle do to the record.
ClosedByCall ==
    IF rec.isOpen
    THEN /\ ~rec'.isOpen /\ rec'.handle = rec.handle
         /\ opened' = [opened EXCEPT ![rec.handle].state = "closed"]
         /\ last'.err = NilError
    ELSE UNCHANGED <<rec, opened>> /\ last'.err = NilError

HandleGot ==
    IF rec.isOpen
    THEN UNCHANGED <<rec, opened>> /\ last'.handle = rec.handle /\ last'.err = NilError
    ELSE IF last'.err = NilError
    THEN /\ rec'.isOpen /\ rec'.handle = Len(opened) + 1 /\ last'.handle = rec'.handle
         /\ opened' = Append(opened, [state |-> "open", pos |-> 0])
    ELSE UNCHANGED <<rec, opened>> /\ last'.handle = 0 /\ last'.err = PathError("open", rec.Path)

\* C28: under any sequence of GetHandle and Close calls isOpen is true exactly
\* when the handle the record holds is open, and at most one handle of the
\* record is open; Close on an open record closes that handle and clears
\* isOpen, on a closed record it returns nil and changes nothing; GetHandle on
\* an open record returns the held handle and opens nothing, on a closed record
\* it opens the file anew, holds the new handle and sets isOpen, or, if the
\* file cannot be opened, returns the error and nil and leaves the record closed.
C28_RecordStateMachine ==
    /\ [](mode = "record" =>
            /\ rec.isOpen <=> opened[rec.handle].state = "open"
            /\ OpenHandles \subseteq {rec.handle}
            /\ Cardinality(OpenHandles) <= 1)
    /\ [][/\ last'.n # last.n /\ last'.op = "Close" => ClosedByCall
          /\ last'.n # last.n /\ last'.op = "GetHandle" => HandleGot]_vars

\* The record has been closed, reopened, and closed again, and a GetHandle call
\* on it has then failed.
C28_ReopenedAndClosed ==
    /\ mode = "record" /\ Len(opened) >= 2 /\ OpenHandles = {}
    /\ last.op = "GetHandle" /\ last.err # NilError

-----------------------------------------------------------------------------
(* Backpressure *)

\* The walker is at "fileCh <- path" for a file.
WalkerAtPathSend ==
    /\ wpc = "run" /\ wpos <= LastStage /\ ~StageIsErr(wpos)
    /\ fs[StageCall(wpos)].d = "file"

\* C29: the three channels of discovery never hold more than 2 * maxConcurrency
\* items and the two of parsing never more than 4 * maxConcurrency, where
\* maxConcurrency is 8 for an argument of 0 or less; while the path channel is
\* full the walker stays at its send and no path is added.
C29_Backpressure ==
    /\ [](/\ Len(fileCh) <= 2 * mc /\ Len(resultCh) <= 2 * mc /\ Len(errCh) <= 2 * mc
          /\ Len(parsedCh) <= 4 * mc /\ Len(perrCh) <= 4 * mc
          /\ mc \in 1..BridgeConc \cup {8}
          /\ \A n \in -1..0 : EffectiveConcurrency(n) = 8)
    /\ [][Len(fileCh) = 2 * mc /\ WalkerAtPathSend
            => wpos' = wpos /\ Len(fileCh') <= Len(fileCh)]_vars

\* The path channel is full and the walker has another path to send.
C29_WalkerBlocked == Running /\ Len(fileCh) = 2 * mc /\ WalkerAtPathSend

-----------------------------------------------------------------------------
(* The close of the path channel *)

\* C30: the path channel is closed once, by a walker that has made its last
\* send: every callback has run, every walk error is on its way and every file
\* path has been sent once; and a validator worker that has returned found the
\* path channel closed and empty.
C30_PathChannelClosedAfterWalk ==
    /\ panicked # "close of closed channel"
    /\ fileClosed =>
          /\ wpc = "done" /\ wpos > LastStage
          /\ \A k \in Paths : fs[k].err => BagIn(PathError("walk", k), errSent)
          /\ \A p \in FilePaths : recvBy[p] + Occurrences(fileCh, p) = 1
    /\ DoneWorker \in WorkersOf(vw) => fileClosed /\ fileCh = <<>>

\* A worker has returned from the run of a tree with a file and a directory
\* that could not be read.
C30_WorkerReturnedAfterClose ==
    /\ DoneWorker \in WorkersOf(vw)
    /\ FilePaths # {}
    /\ \E k \in Paths : fs[k].err

-----------------------------------------------------------------------------
(* The collector of errors *)

NotNilError(err) == err # NilError

\* C31: after any sequence of Add calls Errors() is the sequence of the non-nil
\* arguments in call order, HasErrors() is true exactly when one of the
\* arguments was not nil, and Error() is the empty string when none was; an
\* Add(nil) call leaves the collector as it was.
C31_CollectorKeepsNonNilInOrder ==
    /\ [](mode = "collector" =>
            /\ Errors(multiErr) = SelectSeq(added, NotNilError)
            /\ HasErrors(multiErr) <=> \E i \in 1..Len(added) : added[i] # NilError
            /\ (\A i \in 1..Len(added) : added[i] = NilError) => Error(multiErr) = <<>>
            /\ HasErrors(multiErr) => Error(multiErr) # <<>>)
    /\ [][Len(added') > Len(added) /\ added'[Len(added')] = NilError
            => multiErr' = multiErr]_vars

\* Add was called with nil between two calls with an error.
C31_NilBetweenErrors ==
    /\ mode = "collector" /\ Len(added) >= 3 /\ Len(multiErr) = 2
    /\ added[1] # NilError /\ added[2] = NilError /\ added[3] # NilError

-----------------------------------------------------------------------------
(* Handles of the streaming command *)

IsOpen(p) == handles[p].state = "open"

\* C32: in the streaming command a handle is open exactly while a worker, a
\* channel buffer or a record not yet closed holds it, and it has one holder;
\* when the loop of main has exited no handle is open: every file that was
\* opened has been closed, by the validator if it was rejected, by the parse
\* worker if it failed to decode, by the Close call of main if it was decoded.
C32_NoHandleLeak ==
    mode = "streaming" =>
        /\ \A p \in Paths : IsOpen(p) <=> Holders(p) = 1
        /\ \A p \in Paths : Holders(p) <= 1
        /\ mpc = "done" =>
              \A p \in FilePaths :
                  /\ ~IsOpen(p)
                  /\ fs[p].file.canOpen => handles[p].state = "closed"
                  /\ verrSent[p] + perrSent[p] + recSent[p] = 1

\* The loop of main has exited after a run in which the validator rejected one
\* file, the decoder another, and main got the record of a third.
C32_ExitedWithAllClosed ==
    /\ mode = "streaming" /\ mpc = "done"
    /\ \E p, q, r \in FilePaths :
          /\ verrSent[p] = 1 /\ perrSent[q] = 1 /\ recSent[r] = 1
          /\ handles[p].state = "closed" /\ handles[q].state = "closed"
          /\ handles[r].state = "closed"

=============================================================================
